---- MODULE Spec2Model ----
\* A model of audiblez.py: chapter selection, text extraction, the scheduling
\* of the per-chapter synthesis jobs on a process pool, and the assembly of
\* the per-chapter WAV files into one M4B by two ffmpeg calls.
\*
\* Strings are sequences of tokens.  An item name is a sequence of
\* one-character strings (the classifier's regular expressions read it
\* character by character); a text is a sequence of word and whitespace
\* tokens; a file name is a sequence of name parts, ".epub" being one part.
EXTENDS Integers, Sequences, FiniteSets, TLC

\* ------------------------------------------------------------------ bounds
\* The number of items of the book of a single run on an empty folder.
MaxItems == 3
\* The number of items of the book of repeated runs on the same folder.
MaxRerunItems == 2
\* The number of items of a book handed to the chapter selector alone.
MaxSelItems == 3
\* The number of runs of main on the same output folder.
MaxRuns == 2
\* The number of nodes of a body handed to the text extractor alone, and the
\* number of chapters before and after the chapter with that body.
MaxNodes == 2
MaxExtractSiblings == 1
\* The number of fragments of a name handed to the classifier alone.
MaxNameFragments == 3

\* ------------------------------------------------------------ string helpers
Whitespace == {" ", "\n", "\t"}

Digits == {"0", "1", "2", "3", "4", "5", "6", "7", "8", "9"}

\* str.lower() on one character (the characters the model's names use).
LowerChar(ch) ==
  CASE ch = "C" -> "c"
    [] ch = "H" -> "h"
    [] ch = "P" -> "p"
    [] ch = "A" -> "a"
    [] ch = "R" -> "r"
    [] ch = "T" -> "t"
    [] ch = "E" -> "e"
    [] OTHER -> ch

\* str.lower()
Lower(s) == [k \in 1..Len(s) |-> LowerChar(s[k])]

\* str.lstrip() / str.rstrip() / str.strip()
RECURSIVE LStrip(_)
LStrip(s) ==
  IF s = <<>> THEN s
  ELSE IF Head(s) \in Whitespace THEN LStrip(Tail(s)) ELSE s

RECURSIVE RStrip(_)
RStrip(s) ==
  IF s = <<>> THEN s
  ELSE IF s[Len(s)] \in Whitespace THEN RStrip(SubSeq(s, 1, Len(s) - 1)) ELSE s

Strip(s) == RStrip(LStrip(s))

\* str.replace(old, new) where old is one part of the name and new a
\* sequence of parts: every occurrence is replaced.
RECURSIVE Replace(_, _, _)
Replace(s, old, new) ==
  IF s = <<>> THEN <<>>
  ELSE IF Head(s) = old THEN new \o Replace(Tail(s), old, new)
       ELSE <<Head(s)>> \o Replace(Tail(s), old, new)

\* "sub in s" for sequences: sub occurs in s as a contiguous run.
Contains(s, sub) ==
  \E p \in 1..(Len(s) - Len(sub) + 1) : SubSeq(s, p, p + Len(sub) - 1) = sub

\* re.search(tok + r"\d{1,3}", s): tok immediately followed by a digit (the
\* search succeeds as soon as one digit follows; up to two more are consumed).
SearchTokDigits(tok, s) ==
  \E p \in 1..(Len(s) - Len(tok)) :
    /\ SubSeq(s, p, p + Len(tok) - 1) = tok
    /\ s[p + Len(tok)] \in Digits

\* ------------------------------------------------------------------- the book
DOC == "ITEM_DOCUMENT"

OTHER_TYPE == "ITEM_IMAGE"

\* Item names (c.get_name()), character by character.
NameCh1 == <<"c", "h", "1">>

NameCH2 == <<"C", "H", "2">>

NamePart3 == <<"p", "a", "r", "t", "3">>

NameChapter == <<"C", "h", "a", "p", "t", "e", "r">>

NameCover == <<"c", "o", "v", "e", "r">>

NameChx == <<"c", "h", "x">>

\* Bodies (get_body_content()), as the sequence of the nodes of the markup
\* in document order, each with its tag and its text.
BodyBlank ==
  << [tag |-> "p", text |-> <<" ", "\n">>], [tag |-> "div", text |-> <<"skipped">>] >>

BodyText ==
  << [tag |-> "h1", text |-> <<" ", "Heading", " ">>],
     [tag |-> "p", text |-> <<"words">>] >>

\* Dublin Core metadata of the book: a title, and no creator.
Metadata == [title |-> << <<"T">> >>, creator |-> << >>]

\* The books handed to the chapter selector alone: up to MaxSelItems items.
SelNames == {NameCh1, NameCH2, NameChapter, NameCover, NameChx}

SelItems == [name : SelNames, type : {DOC, OTHER_TYPE}, body : {BodyText}]

SelBooks == UNION {[1..n -> SelItems] : n \in 0..MaxSelItems}

\* The books of a full run: n document items with distinct names, each body
\* with or without narratable text.
RunName(p) == <<"c", "h", ToString(p)>>

RunBooks(n) ==
  { [p \in 1..n |-> [name |-> RunName(p), type |-> DOC, body |-> b[p]]] :
      b \in [1..n -> {BodyBlank, BodyText}] }

\* The names handed to the classifier alone: up to MaxNameFragments of these
\* fragments, one after the other.
NameFragments ==
  { <<"c", "h">>, <<"C", "H">>, <<"p", "a", "r", "t">>, <<"P", "a", "R", "t">>,
    <<"c", "h", "a", "p">>, <<"t", "e", "r">>, <<"T", "E", "R">>,
    <<"1">>, <<"2", "3", "4", "5">>, <<"x">>, <<".">> }

RECURSIVE Flatten(_)
Flatten(parts) == IF parts = << >> THEN << >> ELSE Head(parts) \o Flatten(Tail(parts))

ClassifyNames ==
  { Flatten(parts) : parts \in UNION {[1..n -> NameFragments] : n \in 0..MaxNameFragments} }

\* The books handed to the text extractor alone: one chapter with any body
\* of up to MaxNodes nodes, between chapters with one of the two bodies above.
\* A body lists the elements find_all walks, in document order, each with
\* its .text.
ExtractNodes ==
  [tag : {"title", "p", "h4", "div"},
   text : { << >>, <<" ", "\n">>, <<"\t", "a", " ", "b", "\n">>, <<"c">> }]

ExtractBodies == UNION {[1..n -> ExtractNodes] : n \in 0..MaxNodes}

SiblingBodies == UNION {[1..n -> {BodyBlank, BodyText}] : n \in 0..MaxExtractSiblings}

ExtractBooks ==
  { [p \in 1..Len(bodies) |-> [name |-> RunName(p), type |-> DOC, body |-> bodies[p]]] :
      bodies \in { pre \o <<b>> \o post :
                     pre \in SiblingBodies, b \in ExtractBodies, post \in SiblingBodies } }

\* The path of the book (Path(file_path).name), ".epub" being one part.
FileName == <<"book", ".epub">>

\* The same book under a name whose extension is in capitals; str.replace
\* compares case by case.
UpperFileName == <<"book", ".EPUB">>

FileNames == {FileName, UpperFileName}


\* ------------------------------------------------------------- pure functions
\* is_chapter(c): True on a match, and None (no return statement is reached)
\* otherwise.
is_chapter(c) ==
  LET name == Lower(c.name) IN
  IF SearchTokDigits(<<"p", "a", "r", "t">>, name) THEN "True"
  ELSE IF SearchTokDigits(<<"c", "h">>, name) THEN "True"
  ELSE IF Contains(name, <<"c", "h", "a", "p", "t", "e", "r">>) THEN "True"
  ELSE "None"

\* Python's truth value of what is_chapter returns.
Truthy(v) == v = "True"

\* [1, ..., n]
Range1(n) == [i \in 1..n |-> i]

\* A chapter is an item of the book, named by its position in get_items().
\* [c for c in book.get_items() if c.get_type() == ebooklib.ITEM_DOCUMENT]
all_documents(bk) ==
  SelectSeq(Range1(Len(bk)), LAMBDA p : bk[p].type = DOC)

\* A variant of find_chapters without the fallback.
find_chapters_NoFallback(bk) ==
  SelectSeq(Range1(Len(bk)),
            LAMBDA p : bk[p].type = DOC /\ Truthy(is_chapter(bk[p])))

\* find_chapters(book): the classified document items, or every document item
\* when none is classified.
find_chapters(bk) ==
  LET chs == SelectSeq(Range1(Len(bk)),
                       LAMBDA p : bk[p].type = DOC /\ Truthy(is_chapter(bk[p])))
  IN IF Len(chs) = 0 THEN all_documents(bk) ELSE chs

\* The names the picker shows.
all_chapters_names(bk) ==
  [k \in 1..Len(all_documents(bk)) |-> bk[all_documents(bk)[k]].name]

\* What the user can pick: a non-empty list of distinct option indexes, in the
\* order picked (multiselect=True, min_selection_count=1).
Picks(n) ==
  { s \in UNION {[1..m -> 1..n] : m \in 1..n} :
      \A a, b \in 1..Len(s) : a # b => s[a] # s[b] }

\* A variant of pick_chapters that returns the items in the order picked.
pick_chapters_PickOrder(bk, picked_options) ==
  [k \in 1..Len(picked_options) |-> all_documents(bk)[picked_options[k]]]

\* pick_chapters(book), given the (option, index) pairs pick() returned:
\* the items of the book whose name is one of the picked names.
pick_chapters(bk, picked_options) ==
  LET selected_chapters_names ==
        [k \in 1..Len(picked_options) |-> all_chapters_names(bk)[picked_options[k]]]
  IN SelectSeq(Range1(Len(bk)),
               LAMBDA p : \E k \in 1..Len(selected_chapters_names) :
                             selected_chapters_names[k] = bk[p].name)

\* The text of one chapter: for each node with a content tag and a non-empty
\* stripped text, that text and a line break.
html_content_tags == {"title", "p", "h1", "h2", "h3", "h4"}

\* A variant of chapter_text that appends the text as it is.
RECURSIVE chapter_text_NoStrip(_)
chapter_text_NoStrip(nodes) ==
  IF nodes = <<>> THEN <<>>
  ELSE LET child == Head(nodes)
           inner_text == IF child.text # <<>> THEN Strip(child.text) ELSE <<>>
       IN (IF child.tag \in html_content_tags /\ inner_text # <<>>
             THEN child.text \o <<"\n">> ELSE <<>>)
          \o chapter_text_NoStrip(Tail(nodes))

RECURSIVE chapter_text(_)
chapter_text(nodes) ==
  IF nodes = <<>> THEN <<>>
  ELSE LET child == Head(nodes)
           inner_text == IF child.text # <<>> THEN Strip(child.text) ELSE <<>>
       IN (IF child.tag \in html_content_tags /\ inner_text # <<>>
             THEN inner_text \o <<"\n">> ELSE <<>>)
          \o chapter_text(Tail(nodes))

\* extract_texts(chapters)
extract_texts(bk, chs) == [k \in 1..Len(chs) |-> chapter_text(bk[chs[k]].body)]

\* intro = f"{title} by {creator}", with the fallbacks of main.
title == IF Len(Metadata.title) > 0 THEN Metadata.title[1] ELSE <<"Untitled">>

creator ==
  IF Len(Metadata.creator) > 0 THEN Metadata.creator[1] ELSE <<"Unknown Author">>

intro == title \o <<" by ">> \o creator

\* --------------------------------------------------------------------- paths
\* output_folder = Path(filename.replace('.epub', ''))
output_folder(filename) == Replace(filename, ".epub", <<>>)

\* output_folder / filename.replace('.epub', f"_chapter_{i}.wav")
chapter_filename(filename, i) ==
  << output_folder(filename),
     Replace(filename, ".epub", <<"_chapter_", ToString(i), ".wav">>) >>

\* output_folder / "wav_list.txt"
concat_file(filename) == << output_folder(filename), <<"wav_list.txt">> >>

\* output_folder / filename.replace('.epub', '.tmp.m4a')
tmp_filename(filename) ==
  << output_folder(filename), Replace(filename, ".epub", <<".tmp.m4a">>) >>

\* output_folder / filename.replace('.epub', '.m4b')
final_filename(filename) ==
  << output_folder(filename), Replace(filename, ".epub", <<".m4b">>) >>

\* ---------------------------------------------------------------- file system
\* The files that exist, by path, each with what it holds.
Exists(files, path) == path \in DOMAIN files

\* open(path, "w") ... / sf.write / ffmpeg -y: create or overwrite.
WriteFile(files, path, content) ==
  [q \in (DOMAIN files) \cup {path} |-> IF q = path THEN content ELSE files[q]]

\* A variant of Unlink that removes nothing.
Unlink_Nothing(files, path) == files

\* Path.unlink(missing_ok=True)
Unlink(files, path) == [q \in (DOMAIN files) \ {path} |-> files[q]]

\* What sf.write leaves when it returns, and when it raises half way.
WavFile(done) == [kind |-> "wav", complete |-> done]

\* ------------------------------------------------------------------ scheduling
\* main, line 66: "if not text.strip(): continue"
IsEmptyText(text) == Strip(text) = <<>>

\* A variant of AlreadyGenerated that looks for the file beside the output
\* folder instead of inside it.
AlreadyGenerated_NoFolder(files, filename, i) ==
  Exists(files, << << >>, Replace(filename, ".epub", <<"_chapter_", ToString(i), ".wav">>) >>)

\* main, line 72: chapter_filename.exists()
AlreadyGenerated(files, filename, i) == Exists(files, chapter_filename(filename, i))

\* main, line 76: the intro is prepended for i == 1.
actual_text(i, text) == IF i = 1 THEN intro \o <<".\n\n">> \o text ELSE text

\* A variant of chapter_indexes_of without the test for an empty text.
chapter_indexes_of_NoEmptyCheck(txts, files, filename) ==
  SelectSeq(Range1(Len(txts)), LAMBDA i : ~AlreadyGenerated(files, filename, i))

\* A variant of chapter_indexes_of without the exists() test.
chapter_indexes_of_NoExistsCheck(txts, files, filename) ==
  SelectSeq(Range1(Len(txts)), LAMBDA i : ~IsEmptyText(txts[i]))

\* main, lines 63-79: the indexes for which a job is made, in index order.
chapter_indexes_of(txts, files, filename) ==
  SelectSeq(Range1(Len(txts)),
            LAMBDA i : /\ ~IsEmptyText(txts[i])
                       /\ ~AlreadyGenerated(files, filename, i))

\* A variant of chapter_args_of that numbers the jobs by their position among
\* the chapters kept, not in the chapter list.
chapter_args_of_Renumbered(txts, files, filename) ==
  LET idx == SelectSeq(Range1(Len(txts)),
                       LAMBDA i : /\ ~IsEmptyText(txts[i])
                                  /\ ~AlreadyGenerated(files, filename, i))
  IN [k \in 1..Len(idx) |->
        [text |-> actual_text(k, txts[idx[k]]),
         chapter_filename |-> chapter_filename(filename, k),
         chapter_index |-> k]]

\* main, lines 77-78: the argument tuples of process_chapter.
chapter_args_of(txts, files, filename) ==
  LET idx == chapter_indexes_of(txts, files, filename) IN
  [k \in 1..Len(idx) |->
     [text |-> actual_text(idx[k], txts[idx[k]]),
      chapter_filename |-> chapter_filename(filename, idx[k]),
      chapter_index |-> idx[k]]]

\* main, line 73: the indexes for which "already exists. Skipping TTS." is
\* printed.
skip_messages_of(txts, files, filename) ==
  { i \in 1..Len(txts) :
      ~IsEmptyText(txts[i]) /\ AlreadyGenerated(files, filename, i) }

\* A variant of wav_list that counts from 0: range(chapter_count).
wav_list_FromZero(chapter_count, files, filename) ==
  LET idx == SelectSeq([i \in 1..chapter_count |-> i - 1],
                       LAMBDA i : Exists(files, chapter_filename(filename, i)))
  IN [k \in 1..Len(idx) |-> chapter_filename(filename, idx[k])]

\* create_m4b_ffmpeg_concat, lines 202-206: the lines of wav_list.txt.
wav_list(chapter_count, files, filename) ==
  LET idx == SelectSeq(Range1(chapter_count),
                       LAMBDA i : Exists(files, chapter_filename(filename, i)))
  IN [k \in 1..Len(idx) |-> chapter_filename(filename, idx[k])]

\* --------------------------------------------------------------------- reports
\* Nothing was printed for the future yet.
NothingPrinted == [line |-> "none"]

\* process_chapter, lines 120-124: the message a job returns.  The time it
\* took and the rate are measured, not computed.
msg(args) ==
  [line |-> "written",
   chapter_index |-> args.chapter_index,
   chapter_filename |-> args.chapter_filename]

\* main, line 93: print("Error processing a chapter:", e)
error_line(e) == [line |-> "Error processing a chapter:", e |-> e]

\* main, lines 88-93: the line printed for a completed future.
PrintedFor(outcome, args, e) ==
  IF outcome = "result" THEN msg(args) ELSE error_line(e)

\* ----------------------------------------------------------------------- state
VARIABLES
  file_name,        \* main's filename: the name of the book's file
  book,             \* the items of the EPUB, in get_items() order
  ffmpeg_installed, \* the environment: shutil.which('ffmpeg') finds it
  fs,               \* the files on disk
  run,              \* the number of the run of main
  pc,               \* where main is
  pick_manually,    \* main's pick_manually, while the chapters are selected
  picked,           \* the option indexes pick() returned, in pick order
  chapters,         \* main's chapters (positions of items of the book)
  texts,            \* main's texts
  has_ffmpeg,       \* main's has_ffmpeg
  chapter_args,     \* main's chapter_args
  skipped,          \* indexes whose "Skipping TTS" message was printed
  futures,          \* the state of each submitted future
  reports,          \* what the as_completed loop printed for each future
  exceptions,       \* the exception each future holds, if any
  printed,          \* the text of what the loop printed for each future
  writers,          \* <<job, path>> for each sf.write call of this run
  out_of_order,     \* a job finished before a job of a lower index did
  prev_chapters,    \* the chapters of the run before, if all its jobs wrote
  last_run,         \* the run before: its chapters, and the indexes of its
                    \* jobs that raised and that returned
  reselected,       \* some run selected other chapters than the run before
  call,             \* the argument of a function called on its own
  result            \* and what it returned

vars ==
  << file_name, book, ffmpeg_installed, fs, run, pc, pick_manually, picked,
     chapters, texts, has_ffmpeg, chapter_args, skipped, futures, reports,
     exceptions, printed, writers, out_of_order, prev_chapters, last_run,
     reselected, call, result >>

\* What is known of the run before, when there is none.
NoRun == [chapters |-> << >>, failed |-> {}, written |-> {}]

\* No file, and main not yet started.
InitRest ==
  /\ fs = << >>
  /\ run = 1
  /\ pc = "start"
  /\ pick_manually = FALSE
  /\ picked = << >>
  /\ chapters = << >>
  /\ texts = << >>
  /\ has_ffmpeg = FALSE
  /\ chapter_args = << >>
  /\ skipped = {}
  /\ futures = << >>
  /\ reports = << >>
  /\ writers = {}
  /\ out_of_order = FALSE
  /\ prev_chapters = << >>
  /\ exceptions = << >>
  /\ printed = << >>
  /\ last_run = NoRun
  /\ reselected = FALSE
  /\ result = "none"

\* One run, in a folder that is new.
Init ==
  /\ file_name = FileName
  /\ book \in RunBooks(MaxItems)
  /\ call = << >>
  /\ ffmpeg_installed \in BOOLEAN
  /\ InitRest

\* Repeated runs on the same book and folder.
InitRuns ==
  /\ file_name = FileName
  /\ book \in RunBooks(MaxRerunItems)
  /\ call = << >>
  /\ ffmpeg_installed \in BOOLEAN
  /\ InitRest

\* The chapter selector alone, on any book.
InitSel ==
  /\ file_name = FileName
  /\ book \in SelBooks
  /\ call = << >>
  /\ ffmpeg_installed = TRUE
  /\ InitRest

\* One run on a book under either name.
InitNames ==
  /\ file_name \in FileNames
  /\ book \in RunBooks(MaxItems)
  /\ call = << >>
  /\ ffmpeg_installed \in BOOLEAN
  /\ InitRest

\* The text extractor alone, on any body.
InitExtract ==
  /\ file_name = FileName
  /\ book \in ExtractBooks
  /\ ffmpeg_installed = TRUE
  /\ call = << >>
  /\ InitRest

\* The classifier alone, on any name.
InitClassify ==
  /\ file_name = FileName
  /\ book = << >>
  /\ ffmpeg_installed = TRUE
  /\ call \in ClassifyNames
  /\ InitRest

\* --------------------------------------------------------------------- actions
\* main, lines 45-53, what follows the choice of the chapters.
Selected(manual, answer, chs) ==
  /\ pick_manually' = manual
  /\ picked' = answer
  /\ chapters' = chs
  /\ reselected' = (reselected \/ (run > 1 /\ chs # last_run.chapters))
  /\ texts' = extract_texts(book, chs)
  /\ has_ffmpeg' = ffmpeg_installed
  /\ pc' = "selected"
  /\ UNCHANGED << file_name, call, result, book, ffmpeg_installed, fs, run, chapter_args, skipped,
                  futures, reports, writers, prev_chapters,
                  out_of_order,
                  exceptions, printed, last_run >>

\* main without --pick.
SelectAuto ==
  /\ pc = "start"
  /\ Selected(FALSE, << >>, find_chapters(book))

\* main with --pick: the user picks names in some order.
SelectManual ==
  /\ pc = "start"
  /\ \E answer \in Picks(Len(all_documents(book))) :
       Selected(TRUE, answer, pick_chapters(book, answer))

\* main, lines 63-79: the job list.
Schedule ==
  /\ pc = "selected"
  /\ chapter_args' = chapter_args_of(texts, fs, file_name)
  /\ skipped' = skip_messages_of(texts, fs, file_name)
  /\ pc' = "scheduled"
  /\ pick_manually' = FALSE
  /\ picked' = << >>
  /\ UNCHANGED << file_name, call, result, book, ffmpeg_installed, fs, run, chapters, texts, has_ffmpeg,
                  futures, reports, writers, prev_chapters,
                  out_of_order,
                  exceptions, printed, last_run, reselected >>

\* main, lines 82-85: every job is submitted to the pool.
Submit ==
  /\ pc = "scheduled"
  /\ chapter_args # << >>
  /\ futures' = [k \in 1..Len(chapter_args) |-> "pending"]
  /\ reports' = [k \in 1..Len(chapter_args) |-> "none"]
  /\ exceptions' = [k \in 1..Len(chapter_args) |-> "none"]
  /\ printed' = [k \in 1..Len(chapter_args) |-> NothingPrinted]
  /\ pc' = "pool"
  /\ UNCHANGED << file_name, call, result, book, ffmpeg_installed, fs, run, chapters, texts, has_ffmpeg,
                  chapter_args, skipped, writers, prev_chapters,
                  pick_manually, picked, out_of_order,
                  last_run, reselected >>

\* main, lines 94-95: nothing to synthesize.
NoJobs ==
  /\ pc = "scheduled"
  /\ chapter_args = << >>
  /\ pc' = "after_pool"
  /\ UNCHANGED << file_name, call, result, book, ffmpeg_installed, fs, run, chapters, texts, has_ffmpeg,
                  chapter_args, skipped, futures, reports, writers,
                  prev_chapters,
                  pick_manually, picked, out_of_order,
                  exceptions, printed, last_run, reselected >>

\* process_chapter in a worker: kokoro.create raises; or sf.write writes the
\* file; or sf.write raises with the file half written.
\* Another worker of the pool writes the same file: the two sf.write calls
\* are not ordered, and the file can hold parts of both.
Contended(k, path) == \E w \in writers : w[1] # k /\ w[2] = path

process_chapter(k) ==
  /\ pc = "pool"
  /\ futures[k] = "pending"
  /\ out_of_order' = (out_of_order \/ \E j \in 1..(k - 1) : futures[j] = "pending")
  /\ LET path == chapter_args[k].chapter_filename IN
     \/ /\ futures' = [futures EXCEPT ![k] = "exception"]
        /\ exceptions' = [exceptions EXCEPT ![k] = "kokoro.create raised"]
        /\ UNCHANGED << fs, writers >>
     \/ \E done \in {TRUE} \cup {~Contended(k, path)} :
          /\ fs' = WriteFile(fs, path, WavFile(done))
          /\ writers' = writers \cup {<<k, path>>}
          /\ futures' = [futures EXCEPT ![k] = "result"]
          /\ exceptions' = exceptions
     \/ /\ fs' = WriteFile(fs, path, WavFile(FALSE))
        /\ writers' = writers \cup {<<k, path>>}
        /\ futures' = [futures EXCEPT ![k] = "exception"]
        /\ exceptions' = [exceptions EXCEPT ![k] = "sf.write raised"]
  /\ UNCHANGED << file_name, call, result, book, ffmpeg_installed, run, pc, chapters, texts, has_ffmpeg,
                  chapter_args, skipped, reports, prev_chapters,
                  pick_manually, picked,
                  printed, last_run, reselected >>

\* main, lines 87-93: what the loop does with a completed future.
ReportOf(outcome) == IF outcome = "result" THEN "result" ELSE "error"

\* A variant of Collect without the try/except: the exception of a job
\* leaves main.
Collect_FailFast(k) ==
  /\ pc = "pool"
  /\ futures[k] # "pending"
  /\ reports[k] = "none"
  /\ IF futures[k] = "exception"
       THEN pc' = "crashed" /\ reports' = reports /\ printed' = printed
       ELSE /\ pc' = pc
            /\ reports' = [reports EXCEPT ![k] = "result"]
            /\ printed' = [printed EXCEPT ![k] = msg(chapter_args[k])]
  /\ UNCHANGED << file_name, call, result, book, ffmpeg_installed, fs, run, chapters, texts,
                  has_ffmpeg, chapter_args, skipped, futures, writers,
                  prev_chapters, pick_manually, picked, out_of_order,
                  exceptions, last_run, reselected >>

\* One round of the as_completed loop.
Collect(k) ==
  /\ pc = "pool"
  /\ futures[k] # "pending"
  /\ reports[k] = "none"
  /\ reports' = [reports EXCEPT ![k] = ReportOf(futures[k])]
  /\ printed' = [printed EXCEPT ![k] = PrintedFor(futures[k], chapter_args[k], exceptions[k])]
  /\ UNCHANGED << file_name, call, result, book, ffmpeg_installed, fs, run, pc, chapters, texts,
                  has_ffmpeg, chapter_args, skipped, futures, writers,
                  prev_chapters,
                  pick_manually, picked, out_of_order,
                  exceptions, last_run, reselected >>

\* A variant of PoolDrained that leaves the pool at the first completed
\* future.
PoolDrained_First == \E k \in 1..Len(futures) : reports[k] # "none"

\* A variant of PoolDrained that waits for the result of every future.
PoolDrained_AllResults == \A k \in 1..Len(futures) : reports[k] = "result"

\* as_completed is exhausted and the executor shut down: every future has
\* been yielded.
PoolDrained == \A k \in 1..Len(futures) : reports[k] # "none"

PoolExit ==
  /\ pc = "pool"
  /\ PoolDrained
  /\ pc' = "after_pool"
  /\ UNCHANGED << file_name, call, result, book, ffmpeg_installed, fs, run, chapters, texts, has_ffmpeg,
                  chapter_args, skipped, futures, reports, writers,
                  prev_chapters,
                  pick_manually, picked, out_of_order,
                  exceptions, printed, last_run, reselected >>

\* main, lines 102-103.
SkipM4B ==
  /\ pc = "after_pool"
  /\ ~has_ffmpeg
  /\ pc' = "done"
  /\ UNCHANGED << file_name, call, result, book, ffmpeg_installed, fs, run, chapters, texts, has_ffmpeg,
                  chapter_args, skipped, futures, reports, writers,
                  prev_chapters,
                  pick_manually, picked, out_of_order,
                  exceptions, printed, last_run, reselected >>

\* A variant of WriteManifest that does not test has_ffmpeg.
WriteManifest_Always ==
  /\ pc = "after_pool"
  /\ LET opened == WriteFile(fs, concat_file(file_name), [kind |-> "list", lines |-> << >>])
     IN fs' = WriteFile(fs, concat_file(file_name),
                        [kind |-> "list",
                         lines |-> wav_list(Len(texts), opened, file_name)])
  /\ pc' = "stage1"
  /\ UNCHANGED << file_name, call, result, book, ffmpeg_installed, run, chapters, texts, has_ffmpeg,
                  chapter_args, skipped, futures, reports, writers,
                  prev_chapters,
                  pick_manually, picked, out_of_order,
                  exceptions, printed, last_run, reselected >>

\* create_m4b_ffmpeg_concat, lines 198-209: wav_list.txt is opened for
\* writing and then filled.
WriteManifest ==
  /\ pc = "after_pool"
  /\ has_ffmpeg
  /\ LET opened == WriteFile(fs, concat_file(file_name), [kind |-> "list", lines |-> << >>])
     IN fs' = WriteFile(fs, concat_file(file_name),
                        [kind |-> "list",
                         lines |-> wav_list(Len(texts), opened, file_name)])
  /\ pc' = "stage1"
  /\ UNCHANGED << file_name, call, result, book, ffmpeg_installed, run, chapters, texts, has_ffmpeg,
                  chapter_args, skipped, futures, reports, writers,
                  prev_chapters,
                  pick_manually, picked, out_of_order,
                  exceptions, printed, last_run, reselected >>

\* A container file: complete or not, and the files it was made of.
Container(kind, done, tracks) == [kind |-> kind, complete |-> done, tracks |-> tracks]

\* lines 211-216: ffmpeg concatenates into the .tmp.m4a; or it fails
\* (check=True raises), before or after it started to write.
Stage1 ==
  /\ pc = "stage1"
  /\ LET lines == fs[concat_file(file_name)].lines IN
     \/ /\ fs' = WriteFile(fs, tmp_filename(file_name), Container("m4a", TRUE, lines))
        /\ pc' = "stage2"
     \/ /\ fs' = WriteFile(fs, tmp_filename(file_name), Container("m4a", FALSE, lines))
        /\ pc' = "crashed"
     \/ /\ fs' = fs
        /\ pc' = "crashed"
  /\ UNCHANGED << file_name, call, result, book, ffmpeg_installed, run, chapters, texts, has_ffmpeg,
                  chapter_args, skipped, futures, reports, writers,
                  prev_chapters,
                  pick_manually, picked, out_of_order,
                  exceptions, printed, last_run, reselected >>

\* lines 218-227: ffmpeg copies into the .m4b, and the two temporary files
\* are unlinked; or it fails, before or after it started to write.
Stage2 ==
  /\ pc = "stage2"
  /\ LET tracks == fs[tmp_filename(file_name)].tracks IN
     \/ /\ fs' = Unlink(Unlink(WriteFile(fs, final_filename(file_name),
                                         Container("m4b", TRUE, tracks)),
                               tmp_filename(file_name)),
                        concat_file(file_name))
        /\ pc' = "done"
     \/ /\ fs' = WriteFile(fs, final_filename(file_name), Container("m4b", FALSE, tracks))
        /\ pc' = "crashed"
     \/ /\ fs' = fs
        /\ pc' = "crashed"
  /\ UNCHANGED << file_name, call, result, book, ffmpeg_installed, run, chapters, texts, has_ffmpeg,
                  chapter_args, skipped, futures, reports, writers,
                  prev_chapters,
                  pick_manually, picked, out_of_order,
                  exceptions, printed, last_run, reselected >>

\* Every job of the run returned a result.
AllJobsWrote == \A k \in 1..Len(futures) : futures[k] = "result"

\* The program is started again on the same book and the same folder.
NewRun ==
  /\ pc \in {"done", "crashed"}
  /\ run < MaxRuns
  /\ run' = run + 1
  /\ prev_chapters' = IF AllJobsWrote THEN chapters ELSE << >>
  /\ last_run' =
       [chapters |-> chapters,
        failed |-> { chapter_args[k].chapter_index :
                       k \in { j \in 1..Len(futures) : futures[j] = "exception" } },
        written |-> { chapter_args[k].chapter_index :
                        k \in { j \in 1..Len(futures) : futures[j] = "result" } }]
  /\ exceptions' = << >>
  /\ printed' = << >>
  /\ pc' = "start"
  /\ chapters' = << >>
  /\ texts' = << >>
  /\ has_ffmpeg' = FALSE
  /\ chapter_args' = << >>
  /\ skipped' = {}
  /\ futures' = << >>
  /\ reports' = << >>
  /\ writers' = {}
  /\ out_of_order' = FALSE
  /\ UNCHANGED << file_name, call, result, book, ffmpeg_installed, fs, pick_manually, picked,
                  reselected >>

Next ==
  \/ SelectAuto
  \/ SelectManual
  \/ Schedule
  \/ Submit
  \/ NoJobs
  \/ \E k \in 1..Len(chapter_args) : process_chapter(k)
  \/ \E k \in 1..Len(chapter_args) : Collect(k)
  \/ PoolExit
  \/ SkipM4B
  \/ WriteManifest
  \/ Stage1
  \/ Stage2

Spec == Init /\ [][Next]_vars

\* main is one thread and takes its next step when it can; as_completed
\* yields every future that has completed.
FairMain ==
  WF_vars(\/ SelectAuto
          \/ SelectManual
          \/ Schedule
          \/ Submit
          \/ NoJobs
          \/ \E k \in 1..Len(chapter_args) : Collect(k)
          \/ PoolExit
          \/ SkipM4B
          \/ WriteManifest)

\* Every submitted job returns or raises: kokoro.create and sf.write do not
\* block for ever.
FairJobs ==
  \A k \in 1..MaxItems : WF_vars(k \in 1..Len(chapter_args) /\ process_chapter(k))

SpecFair == Init /\ [][Next]_vars /\ FairMain /\ FairJobs

NextRuns == Next \/ NewRun

SpecRuns == InitRuns /\ [][NextRuns]_vars

NextSel == SelectAuto \/ SelectManual

SpecSel == InitSel /\ [][NextSel]_vars

\* is_chapter is called on an item with the name drawn.
Classify ==
  /\ pc = "start"
  /\ result' = is_chapter([name |-> call])
  /\ pc' = "classified"
  /\ UNCHANGED << file_name, call, book, ffmpeg_installed, fs, run,
                  pick_manually, picked, chapters, texts, has_ffmpeg,
                  chapter_args, skipped, futures, reports, exceptions, printed,
                  writers, out_of_order, prev_chapters, last_run, reselected >>

SpecClassify == InitClassify /\ [][Classify]_vars

SpecNames == InitNames /\ [][Next]_vars

\* main up to extract_texts, on all the document items.
SpecExtract == InitExtract /\ [][SelectAuto]_vars

\* ---------------------------------------------------------------- properties
\* The positions main is at once the pool is left.
AfterPool == {"after_pool", "stage1", "stage2", "done", "crashed"}

\* The indexes of the chapters with a non-empty text.
NonEmptyIndexes == { i \in 1..Len(texts) : Strip(texts[i]) # << >> }

\* The path of the artifact of index i.
WavPath(i) == chapter_filename(file_name, i)

\* The job's text starts with the "title by author" introduction.
HasIntro(job) ==
  LET prefix == intro \o <<".\n\n">> IN
  /\ Len(job.text) >= Len(prefix)
  /\ SubSeq(job.text, 1, Len(prefix)) = prefix

\* The positions of a list are strictly ascending numbers.
Ascending(seq) == \A a, b \in 1..Len(seq) : a < b => seq[a] < seq[b]

\* A list of paths names artifacts in strictly ascending index order.
AscendingPaths(lines, n) ==
  \A a, b \in 1..Len(lines) :
    a < b => \A i, j \in 1..n : (lines[a] = WavPath(i) /\ lines[b] = WavPath(j)) => i < j

\* C1 (as claimed): when the job list is built with no artifact on disk and
\* at least one non-empty text, exactly one job carries the introduction, and
\* it is the job of the lowest index with a non-empty text.
IntroOnFirstNonEmpty ==
  ( /\ pc = "scheduled"
    /\ NonEmptyIndexes # {}
    /\ \A i \in 1..Len(texts) : ~Exists(fs, WavPath(i)) )
  => LET first == CHOOSE i \in NonEmptyIndexes : \A j \in NonEmptyIndexes : i <= j
         withIntro == { k \in 1..Len(chapter_args) : HasIntro(chapter_args[k]) }
     IN /\ Cardinality(withIntro) = 1
        /\ \A k \in withIntro : chapter_args[k].chapter_index = first

\* C2: a run that follows a run of the same chapters in which every job wrote
\* its artifact submits no job, makes no synthesis call, and prints the
\* "skipping" message for every chapter with a non-empty text.
SecondRunSkipsAll ==
  ( /\ run > 1
    /\ pc \notin {"start", "selected"}
    /\ prev_chapters = chapters )
  => /\ chapter_args = << >>
     /\ futures = << >>
     /\ writers = {}
     /\ skipped = NonEmptyIndexes

SecondRunSkipsAllWitness ==
  /\ run = 2
  /\ pc = "done"
  /\ prev_chapters = chapters
  /\ Cardinality(skipped) >= 2

\* C3: the list file written by the assembler names exactly the artifacts
\* that exist for the indexes 1..N, each once, in strictly ascending index
\* order, whatever the order the workers finished in.
ManifestExact ==
  pc = "stage1" =>
    LET lines == fs[concat_file(file_name)].lines
        n == Len(texts)
    IN /\ \A a \in 1..Len(lines) :
            \E i \in 1..n : lines[a] = WavPath(i) /\ Exists(fs, WavPath(i))
       /\ \A i \in 1..n :
            Exists(fs, WavPath(i)) => \E a \in 1..Len(lines) : lines[a] = WavPath(i)
       /\ AscendingPaths(lines, n)

ManifestExactWitness ==
  /\ pc = "stage1"
  /\ out_of_order
  /\ Len(fs[concat_file(file_name)].lines) >= 2

\* C4: the assembler runs, and its files exist, only when every submitted
\* job has settled.
Barrier ==
  ( \/ pc \in AfterPool
    \/ Exists(fs, concat_file(file_name))
    \/ Exists(fs, tmp_filename(file_name))
    \/ Exists(fs, final_filename(file_name)) )
  => /\ chapter_args # << >> => Len(futures) = Len(chapter_args)
     /\ \A k \in 1..Len(futures) : futures[k] # "pending"

BarrierWitness ==
  /\ pc = "stage1"
  /\ Len(futures) >= 3
  /\ out_of_order
  /\ \E k \in 1..Len(futures) : futures[k] = "exception"

\* C5: a job that raises aborts neither the run nor the other jobs: the run
\* stops early only in the muxing tool, and once the pool is left every
\* submitted job has one reported outcome, a result with its artifact written
\* or an error.
FailureIsolation ==
  /\ pc = "crashed" => (has_ffmpeg /\ Exists(fs, concat_file(file_name)))
  /\ pc \in AfterPool =>
       /\ chapter_args # << >> => Len(futures) = Len(chapter_args)
       /\ \A k \in 1..Len(futures) :
            /\ futures[k] = "result" =>
                 /\ reports[k] = "result"
                 /\ Exists(fs, chapter_args[k].chapter_filename)
                 /\ fs[chapter_args[k].chapter_filename].complete
            /\ futures[k] = "exception" => reports[k] = "error"

FailureIsolationWitness ==
  /\ pc = "stage1"
  /\ \E k, j \in 1..Len(futures) :
       /\ k < j
       /\ reports[k] = "error"
       /\ reports[j] = "result"
       /\ fs[chapter_args[j].chapter_filename].complete

\* C6: a job is made for an index only if its destination does not exist when
\* the job list is built; an index with a non-empty text whose destination
\* exists gets no job and a "skipping" message, and its file is not written
\* by the run.
Resumable ==
  /\ pc = "scheduled" =>
       /\ \A k \in 1..Len(chapter_args) :
            /\ chapter_args[k].chapter_filename = WavPath(chapter_args[k].chapter_index)
            /\ ~Exists(fs, chapter_args[k].chapter_filename)
       /\ \A i \in NonEmptyIndexes :
            Exists(fs, WavPath(i)) =>
              /\ i \in skipped
              /\ \A k \in 1..Len(chapter_args) : chapter_args[k].chapter_index # i
  /\ pc \in {"scheduled", "pool"} \cup AfterPool =>
       \A i \in skipped :
         /\ Exists(fs, WavPath(i))
         /\ \A k \in 1..Len(chapter_args) : <<k, WavPath(i)>> \notin writers

ResumableWitness ==
  /\ pc = "done"
  /\ skipped # {}
  /\ writers # {}

\* C7 (as claimed): the final .m4b either does not exist or is complete.
FinalNeverPartial ==
  Exists(fs, final_filename(file_name)) => fs[final_filename(file_name)].complete

\* C8: in a run on a new folder in which every job succeeds, the artifacts
\* are those of exactly the indexes with a non-empty text, under their
\* position in the chapter list, and the audiobook is made of them in
\* ascending index order.
FreshRunArtifacts ==
  (pc \in AfterPool /\ AllJobsWrote) =>
    /\ { chapter_args[k].chapter_index : k \in 1..Len(chapter_args) } = NonEmptyIndexes
    /\ \A i \in 1..MaxItems : Exists(fs, WavPath(i)) <=> i \in NonEmptyIndexes
    /\ (pc = "done" /\ has_ffmpeg) =>
         LET tracks == fs[final_filename(file_name)].tracks IN
         /\ { tracks[a] : a \in 1..Len(tracks) } = { WavPath(i) : i \in NonEmptyIndexes }
         /\ AscendingPaths(tracks, Len(texts))

FreshRunArtifactsWitness ==
  /\ pc = "done"
  /\ Len(texts) = 3
  /\ NonEmptyIndexes = {1, 3}
  /\ DOMAIN fs = {WavPath(1), WavPath(3), final_filename(file_name)}
  /\ fs[final_filename(file_name)].tracks = <<WavPath(1), WavPath(3)>>

\* The positions of the document items, and of those the classifier accepts.
DocumentItems == { p \in 1..Len(book) : book[p].type = DOC }

ClassifiedItems == { p \in DocumentItems : is_chapter(book[p]) = "True" }

\* The chapters as a set.
ChapterSet == { chapters[k] : k \in 1..Len(chapters) }

\* C9: without --pick, the chapters are all the document items in book order
\* when the classifier accepts none of them, and else exactly the document
\* items it accepts.
AutoSelection ==
  (pc = "selected" /\ ~pick_manually) =>
    /\ Ascending(chapters)
    /\ ChapterSet = IF ClassifiedItems = {} THEN DocumentItems ELSE ClassifiedItems

AutoSelectionWitness ==
  /\ pc = "selected"
  /\ ~pick_manually
  /\ ClassifiedItems = {}
  /\ Len(chapters) >= 2
  /\ DocumentItems # 1..Len(book)

\* The document items the user picked.
PickedItems == { all_documents(book)[picked[a]] : a \in 1..Len(picked) }

\* C10 (as claimed): in both modes the chapters are document items, in book
\* order and without duplicates; with --pick they are exactly the picked
\* document items.
SelectorOrder ==
  pc = "selected" =>
    /\ Ascending(chapters)
    /\ ChapterSet \subseteq DocumentItems
    /\ pick_manually => ChapterSet = PickedItems

\* No two items of the book have the same name.
UniqueNames == \A p, q \in 1..Len(book) : p # q => book[p].name # book[q].name

\* C10 (amended): the same, for a book whose item names are unique.
SelectorOrderUniqueNames == UniqueNames => SelectorOrder

SelectorOrderWitness ==
  /\ pc = "selected"
  /\ UniqueNames
  /\ pick_manually
  /\ Len(picked) >= 2
  /\ picked[1] > picked[2]
  /\ DocumentItems # 1..Len(book)
  /\ ChapterSet = PickedItems

\* The character is the lower-case letter, or its upper-case form.
SameLetter(ch, low) ==
  \/ ch = low
  \/ <<low, ch>> \in { <<"a", "A">>, <<"c", "C">>, <<"e", "E">>, <<"h", "H">>,
                       <<"p", "P">>, <<"r", "R">>, <<"t", "T">> }

\* The word is in the name at position p, in any case.
WordAt(name, p, word) ==
  /\ p + Len(word) - 1 <= Len(name)
  /\ \A q \in 1..Len(word) : SameLetter(name[p + q - 1], word[q])

\* The name holds "part" or "ch" with a digit right after it, or "chapter".
NameMatches(name) ==
  \E p \in 1..Len(name) :
    \/ /\ WordAt(name, p, <<"p", "a", "r", "t">>)
       /\ p + 4 <= Len(name)
       /\ name[p + 4] \in Digits
    \/ /\ WordAt(name, p, <<"c", "h">>)
       /\ p + 2 <= Len(name)
       /\ name[p + 2] \in Digits
    \/ WordAt(name, p, <<"c", "h", "a", "p", "t", "e", "r">>)

\* C11 (as claimed): is_chapter returns the boolean True for a name that
\* matches and the boolean False for every other name.
IsChapterBoolean ==
  pc = "classified" => result = (IF NameMatches(call) THEN "True" ELSE "False")

\* The indexes of the jobs of the run.
JobIndexes == { chapter_args[k].chapter_index : k \in 1..Len(chapter_args) }

\* C12: without ffmpeg the probe is made before the job list is built, the
\* jobs are made and run as with it, the assembler never runs (no list file,
\* no intermediate and no final container, no ffmpeg call), the artifacts
\* written stay, and the run ends normally.
DegradedWithoutFfmpeg ==
  /\ pc \in {"scheduled", "pool"} \cup AfterPool => has_ffmpeg = ffmpeg_installed
  /\ ~ffmpeg_installed =>
       /\ pc \notin {"stage1", "stage2", "crashed"}
       /\ ~Exists(fs, concat_file(file_name))
       /\ ~Exists(fs, tmp_filename(file_name))
       /\ ~Exists(fs, final_filename(file_name))
       /\ pc \in {"scheduled", "pool"} \cup AfterPool => JobIndexes = NonEmptyIndexes
       /\ pc = "done" =>
            /\ \A k \in 1..Len(chapter_args) : reports[k] # "none"
            /\ \A w \in writers : Exists(fs, w[2])

DegradedWithoutFfmpegWitness ==
  /\ pc = "done"
  /\ ~ffmpeg_installed
  /\ Len(chapter_args) >= 2
  /\ \E k \in 1..Len(futures) : futures[k] = "exception"
  /\ writers # {}
  /\ DOMAIN fs = { w[2] : w \in writers }

\* C13 (as claimed): once the pool is left, the line printed for a job that
\* raised carries the job's chapter index and the cause, and the line printed
\* for a job that returned carries its chapter index and destination path.
OutcomesAttributable ==
  pc \in AfterPool =>
    \A k \in 1..Len(futures) :
      /\ futures[k] = "exception" =>
           /\ "e" \in DOMAIN printed[k]
           /\ printed[k].e = exceptions[k]
           /\ "chapter_index" \in DOMAIN printed[k]
           /\ printed[k].chapter_index = chapter_args[k].chapter_index
      /\ futures[k] = "result" =>
           /\ "chapter_index" \in DOMAIN printed[k]
           /\ printed[k].chapter_index = chapter_args[k].chapter_index
           /\ "chapter_filename" \in DOMAIN printed[k]
           /\ printed[k].chapter_filename = chapter_args[k].chapter_filename

\* C14: the step in which the second ffmpeg call succeeds leaves no list file
\* and no intermediate container, leaves the final container complete, and
\* leaves every artifact the list names in place as it was; so does the
\* first ffmpeg call for the artifacts.
CleanupAfterAssembly ==
  [][ LET lines == fs[concat_file(file_name)].lines
          kept == \A a \in 1..Len(lines) :
                    /\ Exists(fs', lines[a])
                    /\ fs'[lines[a]] = fs[lines[a]]
      IN /\ (pc = "stage1" /\ pc' = "stage2") => kept
         /\ (pc = "stage2" /\ pc' = "done") =>
              /\ ~Exists(fs', concat_file(file_name))
              /\ ~Exists(fs', tmp_filename(file_name))
              /\ Exists(fs', final_filename(file_name))
              /\ fs'[final_filename(file_name)].complete
              /\ kept ]_vars

CleanupAfterAssemblyWitness ==
  /\ pc = "done"
  /\ has_ffmpeg
  /\ ~Exists(fs, concat_file(file_name))
  /\ ~Exists(fs, tmp_filename(file_name))
  /\ Exists(fs, final_filename(file_name))
  /\ Len(fs[final_filename(file_name)].tracks) >= 2
  /\ \A a \in 1..Len(fs[final_filename(file_name)].tracks) :
       Exists(fs, fs[final_filename(file_name)].tracks[a])

\* The text without the whitespace before its first and after its last
\* token that is not whitespace.
Trimmed(s) ==
  LET solid == { q \in 1..Len(s) : s[q] \notin {" ", "\n", "\t"} } IN
  IF solid = {} THEN << >>
  ELSE SubSeq(s, CHOOSE q \in solid : \A r \in solid : q <= r,
                 CHOOSE q \in solid : \A r \in solid : q >= r)

\* The nodes of a body that give a line, in document order.
LineNodes(body) ==
  SelectSeq(body, LAMBDA n : /\ n.tag \in {"title", "p", "h1", "h2", "h3", "h4"}
                             /\ Trimmed(n.text) # << >>)

\* The lines of a body, one after the other.
ExpectedText(body) ==
  Flatten([k \in 1..Len(LineNodes(body)) |-> Trimmed(LineNodes(body)[k].text) \o <<"\n">>])

\* C15: the texts are one per chapter, in chapter order; each is, in document
\* order, the trimmed text and a line break of every title, p, h1..h4 node
\* whose trimmed text is not empty, and so is empty when there is no such
\* node.
TextsExtracted ==
  pc = "selected" =>
    /\ Len(texts) = Len(chapters)
    /\ \A k \in 1..Len(texts) : texts[k] = ExpectedText(book[chapters[k]].body)

TextsExtractedWitness ==
  /\ pc = "selected"
  /\ Len(texts) = 3
  /\ texts[2] = <<"c", "\n", "a", " ", "b", "\n">>
  /\ texts[3] = << >>
  /\ \E n \in 1..Len(book[2].body) : book[2].body[n].tag = "title"

\* C16: in one run, two distinct jobs have distinct destination paths, the
\* path of a job is the one main derives from the name of the book and the
\* index of the chapter, and no file is written by more than one worker.
NoWriteContention ==
  /\ \A j, k \in 1..Len(chapter_args) :
       j # k => chapter_args[j].chapter_filename # chapter_args[k].chapter_filename
  /\ \A k \in 1..Len(chapter_args) :
       chapter_args[k].chapter_filename
         = chapter_filename(file_name, chapter_args[k].chapter_index)
  /\ \A v, w \in writers : v[2] = w[2] => v[1] = w[1]

\* C17: when every submitted job returns or raises, main, once the job list
\* is built, leaves the pool and reaches the assembly (or, without ffmpeg,
\* the end of the run), whatever the order in which the jobs complete and
\* whichever of them raise; with an empty job list it gets there without
\* a pool.
ReachesAssembly ==
  /\ (pc = "scheduled") ~> \/ has_ffmpeg /\ pc = "stage1"
                           \/ ~has_ffmpeg /\ pc = "done"
  /\ [][(pc = "scheduled" /\ chapter_args = << >>)
          => (pc' = "after_pool" /\ futures' = futures)]_vars

ReachesAssemblyWitness ==
  /\ pc = "stage1"
  /\ has_ffmpeg
  /\ out_of_order
  /\ \E k \in 1..Len(futures) : futures[k] = "exception"
  /\ \E k \in 1..Len(futures) : futures[k] = "result"

\* The list file names only artifacts of indexes whose text is not empty in
\* this run.
ManifestOfNonEmpty ==
  LET lines == fs[concat_file(file_name)].lines IN
  \A a \in 1..Len(lines) : \E i \in NonEmptyIndexes : lines[a] = WavPath(i)

\* C18, as stated: after any runs on the same folder, also runs with other
\* chapter selections, the list file of the latest run names only indexes
\* whose text is not empty in that run.
NoStaleArtifacts == pc = "stage1" => ManifestOfNonEmpty

\* C18, amended: the same, after runs that all had the same chapter
\* selection.
NoStaleArtifactsSameSelection == (pc = "stage1" /\ ~reselected) => ManifestOfNonEmpty

NoStaleArtifactsWitness ==
  /\ run = 2
  /\ pc = "stage1"
  /\ ~reselected
  /\ skipped # {}
  /\ fs[concat_file(file_name)].lines # << >>
  /\ NonEmptyIndexes # 1..Len(texts)

\* The jobs of this run are the jobs that failed in the run before, and none
\* is for an index whose file the run before wrote.
RetriesFailed ==
  /\ JobIndexes = last_run.failed
  /\ JobIndexes \cap last_run.written = {}

\* A following run with the same chapters, when the jobs that failed left no
\* file.
FollowingRun ==
  /\ run > 1
  /\ pc = "scheduled"
  /\ chapters = last_run.chapters
  /\ \A i \in last_run.failed : ~Exists(fs, WavPath(i))

\* C19, as stated: a following run on the same book (the same chapters) and
\* folder makes jobs for exactly the failed indexes when these left no file,
\* and a job that fails never leaves a file that a later run skips.
RetryAfterFailure ==
  /\ FollowingRun => RetriesFailed
  /\ (run > 1 /\ pc = "scheduled" /\ chapters = last_run.chapters)
       => skipped \cap last_run.failed = {}

\* C19, amended: the first part as stated; a job that fails in kokoro.create
\* leaves no file at its destination.
RetryAfterCleanFailure ==
  /\ FollowingRun => RetriesFailed
  /\ \A k \in 1..Len(exceptions) :
       exceptions[k] = "kokoro.create raised"
         => ~Exists(fs, chapter_args[k].chapter_filename)

RetryAfterCleanFailureWitness ==
  /\ FollowingRun
  /\ last_run.failed # {}
  /\ last_run.written # {}
  /\ skipped = last_run.written

====
